---- MODULE Spec2Model ----
(***************************************************************************)
(* Grim: one run of the command-line world simulator (src/cli.ts main),    *)
(* with the Narrator (src/simulation/narrator.ts), the ground-truth loader *)
(* (src/utils/groundTruthLoader.ts) and the API helper                     *)
(* (src/openai/apiHelper.ts).                                              *)
(*                                                                         *)
(* Text (file contents, prompts, API replies) is a sequence of tokens,     *)
(* each token a chunk of characters; file names and paths are strings.     *)
(* A date is a day number (days since 1970-01-01, the clock taken as UTC); *)
(* DateStr is toISOString().split('T')[0].                                 *)
(***************************************************************************)
EXTENDS Integers, Sequences, FiniteSets, TLC

(* ------------------------------ bounds --------------------------------- *)

\* Largest number of expert sections a narrator reply holds.
MaxSections == 6

\* The run starts on one of the days 1..MaxToday.
MaxToday == 1

\* Largest week number stored in a JSON snapshot file.
MaxWeek == 1

\* Largest number of files of a flat world directory.
MaxFiles == 3

\* Largest number of sendPrompt calls made on one APIHelper with functions.
MaxCalls == 2

\* Largest number of outcomes in the arguments of a function call.
MaxOutcomes == 2

(* ---------------------------- JS helpers ------------------------------- *)

\* The value of a missing array element or object field.
Undefined == "<undefined>"

\* Array.prototype.indexOf, 0-based, -1 when absent.
IndexOf(a, x) ==
  IF \E i \in 1..Len(a) : a[i] = x
  THEN (CHOOSE i \in 1..Len(a) : a[i] = x /\ \A j \in 1..(i - 1) : a[j] # x) - 1
  ELSE -1

\* a[i] for a 0-based index i, undefined past the end.
ArgAt(a, i) == IF i + 1 \in 1..Len(a) THEN a[i + 1] ELSE Undefined

\* String.prototype.endsWith.
EndsWith(s, suffix) ==
  /\ Len(s) >= Len(suffix)
  /\ SubSeq(s, Len(s) - Len(suffix) + 1, Len(s)) = suffix

\* path.join(dir, name).
Join(dir, name) == dir \o "/" \o name

\* String.prototype.padStart(n, '0') of a number's digits.
RECURSIVE PadStart(_, _)
PadStart(s, n) == IF Len(s) >= n THEN s ELSE PadStart("0" \o s, n)

\* The year, month and day of the day numbered d (days since 1970-01-01).
CivilFromDays(d) ==
  LET z   == d + 719468
      era == z \div 146097
      doe == z - era * 146097
      yoe == (doe - (doe \div 1460) + (doe \div 36524) - (doe \div 146096)) \div 365
      doy == doe - (365 * yoe + (yoe \div 4) - (yoe \div 100))
      mp  == (5 * doy + 2) \div 153
      m   == IF mp < 10 THEN mp + 3 ELSE mp - 9
  IN  [year  |-> yoe + era * 400 + (IF m <= 2 THEN 1 ELSE 0),
       month |-> m,
       day   |-> doy - ((153 * mp + 2) \div 5) + 1]

\* date.toISOString().split('T')[0] of the day numbered d: YYYY-MM-DD.
DateStr(d) ==
  LET c == CivilFromDays(d)
  IN  PadStart(ToString(c.year), 4) \o "-" \o PadStart(ToString(c.month), 2)
        \o "-" \o PadStart(ToString(c.day), 2)

\* Does text t hold text s as a contiguous part?
Contains(t, s) ==
  \E i \in 0..(Len(t) - Len(s)) : SubSeq(t, i + 1, i + Len(s)) = s

(* ------------------------- command line (cli.ts) ----------------------- *)

\* The argument vectors a run is started with.
ArgVectors ==
  { <<>>,
    <<"--output", "out">>,
    <<"--output">>,
    <<"--snapshot", "prev.txt">>,
    <<"--output", "out", "--snapshot">>,
    <<"--snapshot", "prev.json", "--output", "out">> }

\* The older main: outputDir is whatever follows the flag's index.
OutputDirNoDefault(a) == ArgAt(a, IndexOf(a, "--output") + 1)

\* main: the directory after --output, "simulation" without the flag.
OutputDirOf(a) ==
  IF IndexOf(a, "--output") # -1
  THEN ArgAt(a, IndexOf(a, "--output") + 1)
  ELSE "simulation"

\* main: the path after --snapshot, null without the flag.
SnapshotPathOf(a) ==
  IF IndexOf(a, "--snapshot") # -1
  THEN ArgAt(a, IndexOf(a, "--snapshot") + 1)
  ELSE Undefined

\* if (snapshotPath): a path that is neither null, undefined nor empty.
Truthy(s) == s # Undefined /\ s # ""

(* ------------------ ground truth (groundTruthLoader.ts) ---------------- *)

Digits == {"0", "1", "2", "3", "4", "5", "6", "7", "8", "9"}

\* The character of s at position i (1-based), "" past the end.
CharAt(s, i) == IF i \in 1..Len(s) THEN SubSeq(s, i, i) ELSE ""

IsDigit(c) == c \in Digits

DigitVal(c) ==
  CASE c = "0" -> 0 [] c = "1" -> 1 [] c = "2" -> 2 [] c = "3" -> 3
    [] c = "4" -> 4 [] c = "5" -> 5 [] c = "6" -> 6 [] c = "7" -> 7
    [] c = "8" -> 8 [] c = "9" -> 9

\* parseInt of a string of digits.
RECURSIVE ParseInt(_)
ParseInt(s) ==
  IF Len(s) = 0 THEN 0
  ELSE 10 * ParseInt(SubSeq(s, 1, Len(s) - 1)) + DigitVal(CharAt(s, Len(s)))

\* Are the n characters of s from position i all digits?
DigitsAt(s, i, n) == \A k \in 0..(n - 1) : IsDigit(CharAt(s, i + k))

\* The day number (days since 1970-01-01) of the first day of month m
\* (1-based, any integer: new Date carries months over into years) of year y.
FirstOfMonth(y, m) ==
  LET yy  == y + ((m - 1) \div 12)
      mm  == ((m - 1) % 12) + 1
      ya  == IF mm <= 2 THEN yy - 1 ELSE yy
      era == ya \div 400
      yoe == ya - era * 400
      mp  == (mm + 9) % 12
      doy == (153 * mp + 2) \div 5
      doe == yoe * 365 + (yoe \div 4) - (yoe \div 100) + doy
  IN  era * 146097 + doe - 719468

\* new Date(year, monthIndex, day) as a day number; a day past the month's
\* end carries over.
NewDate(year, monthIndex, day) == FirstOfMonth(year, monthIndex + 1) + day - 1

\* The longest run of 1 or 2 digits of s at position i (\d{1,2}, greedy),
\* 0 when there is none.
Digits12At(s, i) ==
  IF DigitsAt(s, i, 2) THEN 2 ELSE IF DigitsAt(s, i, 1) THEN 1 ELSE 0

\* /(\d{4})-(\d{1,2})-(\d{1,2})/ at position i of s.
YmdAt(s, i) ==
  /\ DigitsAt(s, i, 4)
  /\ CharAt(s, i + 4) = "-"
  /\ Digits12At(s, i + 5) > 0
  /\ \E n \in 1..Digits12At(s, i + 5) :
        CharAt(s, i + 5 + n) = "-" /\ IsDigit(CharAt(s, i + 6 + n))

\* The length the month group takes in the match at i: greedy, backtracking
\* to one digit when "-" does not follow two.
YmdMonthLen(s, i) ==
  IF /\ Digits12At(s, i + 5) = 2
     /\ CharAt(s, i + 7) = "-"
     /\ IsDigit(CharAt(s, i + 8))
  THEN 2 ELSE 1

\* /week-(\d{1,2})(\d{4})/ at position i of s, with n digits for the week.
WeekAtWith(s, i, n) ==
  /\ i + 4 <= Len(s)
  /\ SubSeq(s, i, i + 4) = "week-"
  /\ DigitsAt(s, i + 5, n)
  /\ DigitsAt(s, i + 5 + n, 4)

WeekAt(s, i) == WeekAtWith(s, i, 2) \/ WeekAtWith(s, i, 1)

\* extractDateFromFilename's fallback: new Date(), the moment of loading.
DefaultDate(now, created) == now

\* extractDateFromFilename: the day a ground-truth file name stands for.
extractDateFromFilename(filename, now, created) ==
  IF \E i \in 1..Len(filename) : YmdAt(filename, i)
  THEN LET i  == CHOOSE i \in 1..Len(filename) :
                   YmdAt(filename, i) /\ \A j \in 1..(i - 1) : ~YmdAt(filename, j)
           ml == YmdMonthLen(filename, i)
           dl == Digits12At(filename, i + 6 + ml)
       IN  NewDate(ParseInt(SubSeq(filename, i, i + 3)),
                   ParseInt(SubSeq(filename, i + 5, i + 4 + ml)) - 1,
                   ParseInt(SubSeq(filename, i + 6 + ml, i + 5 + ml + dl)))
  ELSE IF \E i \in 1..Len(filename) : WeekAt(filename, i)
  THEN LET i  == CHOOSE i \in 1..Len(filename) :
                   WeekAt(filename, i) /\ \A j \in 1..(i - 1) : ~WeekAt(filename, j)
           n  == IF WeekAtWith(filename, i, 2) THEN 2 ELSE 1
           week == ParseInt(SubSeq(filename, i + 5, i + 4 + n))
           year == ParseInt(SubSeq(filename, i + 5 + n, i + 8 + n))
       IN  NewDate(year, 0, 1) + (week - 1) * 7
  ELSE DefaultDate(now, created)

\* A directory entry as readdir(dir, {withFileTypes: true}) gives it.
Entry(name, isDir) == [name |-> name, isDir |-> isDir]

\* A token standing for a long stretch of text.
Bulk == "<60000 characters>"

\* A byte that is no part of a UTF-8 sequence, and the character U+FFFD a
\* decoder puts in its place.
InvalidByte == "<byte 0xFF>"
Replacement == "<U+FFFD>"

\* readFile(path, 'utf-8'): the bytes of the file decoded as UTF-8.
Utf8Decode(bytes) ==
  [i \in 1..Len(bytes) |-> IF bytes[i] = InvalidByte THEN Replacement ELSE bytes[i]]

\* A file of the world directory: its bytes (a token is a chunk of UTF-8
\* text, or InvalidByte) and the day it was created.
File(content, created) == [content |-> content, created |-> created]

\* The world directories a run may find: dirs maps a directory to its
\* entries, files a file path to the file.
Worlds ==
  { [dirs  |-> [d \in {"./world", "./world/sub"} |->
                 IF d = "./world"
                 THEN <<Entry("notes.txt", FALSE), Entry("sub", TRUE)>>
                 ELSE <<Entry("week-022024.md", FALSE)>>],
     files |-> [f \in {"./world/notes.txt", "./world/sub/week-022024.md"} |->
                 IF f = "./world/notes.txt" THEN File(<<"notes", "\n", "more">>, 19000)
                 ELSE File(<<"week two", InvalidByte>>, 19800)]],
    [dirs  |-> [d \in {"./world"} |->
                 <<Entry("2024-03-01.txt", FALSE), Entry("2024-02-01.txt", FALSE)>>],
     files |-> [f \in {"./world/2024-03-01.txt", "./world/2024-02-01.txt"} |->
                 IF f = "./world/2024-03-01.txt" THEN File(<<Bulk, "march">>, 19800)
                 ELSE File(<<Bulk, "february">>, 19800)]] }

\* A token standing for a stretch of text that, formatted as a record of the
\* context, makes half of MAX_CONTEXT_LENGTH: 14 characters go to the
\* "[YYYY-MM-DD]\n" before it and the "\n" after it.
Half == "<49986 characters>"

\* The names and the contents of the files of a flat world directory.
FlatNames == {"2024-03-01.txt", "2024-02-01.txt", "2024-2-1.md", "notes.txt"}

FlatContents == { <<"brief">>, <<Bulk>>, <<Half>> }

\* The directory that lists the files named names[i], holding contents[i].
FlatWorld(names, contents) ==
  [dirs  |-> [d \in {"./world"} |-> [i \in 1..Len(names) |-> Entry(names[i], FALSE)]],
   files |-> [f \in {Join("./world", names[i]) : i \in 1..Len(names)} |->
               File(contents[CHOOSE i \in 1..Len(names) : f = Join("./world", names[i])],
                    19800)]]

\* The flat world directories of up to MaxFiles files, in every order
\* readdir may list them.
FlatWorlds ==
  LET lists == UNION {[1..n -> FlatNames] : n \in 0..MaxFiles}
      names == {ns \in lists : \A i, j \in 1..Len(ns) : i # j => ns[i] # ns[j]}
  IN  UNION {{FlatWorld(ns, cs) : cs \in [1..Len(ns) -> FlatContents]} : ns \in names}

\* A frame of processDirectory: the directory, its entries once readdir has
\* returned, and the index of the next entry of the for loop.
Frame(dir) == [dir |-> dir, listed |-> FALSE, entries |-> <<>>, i |-> 1]

\* The record processDirectory pushes for a file it has read.
GroundTruthData(filePath, content, date) ==
  [filePath |-> filePath, content |-> content, date |-> date]

(* ----------------------------- text ------------------------------------ *)

\* The number of characters of a token.
TokLen(tok) ==
  IF tok = Bulk THEN 60000
  ELSE IF tok = Half THEN 49986
  ELSE IF tok \in {InvalidByte, Replacement} THEN 1
  ELSE Len(tok)

\* String.prototype.length of a text.
RECURSIVE StrLen(_)
StrLen(t) == IF t = <<>> THEN 0 ELSE TokLen(Head(t)) + StrLen(Tail(t))

IsSpace(tok) == tok \in {" ", "\n"}

\* String.prototype.trim.
RECURSIVE TrimStart(_)
TrimStart(t) == IF t # <<>> /\ IsSpace(Head(t)) THEN TrimStart(Tail(t)) ELSE t

RECURSIVE TrimEnd(_)
TrimEnd(t) ==
  IF t # <<>> /\ IsSpace(t[Len(t)]) THEN TrimEnd(SubSeq(t, 1, Len(t) - 1)) ELSE t

Trim(t) == TrimEnd(TrimStart(t))

\* Array.prototype.join over texts.
RECURSIVE JoinTexts(_, _)
JoinTexts(ts, sep) ==
  IF ts = <<>> THEN <<>>
  ELSE IF Len(ts) = 1 THEN ts[1]
  ELSE ts[1] \o sep \o JoinTexts(Tail(ts), sep)

\* Array.prototype.reverse.
Reverse(s) == [i \in 1..Len(s) |-> s[Len(s) + 1 - i]]

(* --------------------- Narrator (narrator.ts) -------------------------- *)

MAX_CONTEXT_LENGTH == 100000

\* Array.prototype.sort with (a, b) => a.date - b.date: stable, by date.
RECURSIVE InsertByDate(_, _)
InsertByDate(sorted, r) ==
  IF sorted = <<>> THEN <<r>>
  ELSE IF sorted[Len(sorted)].date <= r.date THEN Append(sorted, r)
  ELSE Append(InsertByDate(SubSeq(sorted, 1, Len(sorted) - 1), r), sorted[Len(sorted)])

RECURSIVE SortByDate(_)
SortByDate(rs) ==
  IF rs = <<>> THEN <<>>
  ELSE InsertByDate(SortByDate(SubSeq(rs, 1, Len(rs) - 1)), rs[Len(rs)])

\* `[${date}]\n${data.content}\n`
FormatRecord(data) == <<"[", DateStr(data.date), "]", "\n">> \o data.content \o <<"\n">>

Separator == <<"\n---\n">>

\* A loop that passes over a chunk that does not fit and goes on with the
\* older ones.
RECURSIVE TakeRecentSkipping(_, _, _)
TakeRecentSkipping(chunks, k, context) ==
  IF k > Len(chunks) THEN context
  ELSE IF StrLen(context \o chunks[k]) > MAX_CONTEXT_LENGTH
  THEN TakeRecentSkipping(chunks, k + 1, context)
  ELSE TakeRecentSkipping(chunks, k + 1,
         chunks[k] \o (IF context # <<>> THEN Separator \o context ELSE <<>>))

\* The loop of getGroundTruthContext over the reversed chunks, from chunk k.
RECURSIVE TakeRecent(_, _, _)
TakeRecent(chunks, k, context) ==
  IF k > Len(chunks) THEN context
  ELSE IF StrLen(context \o chunks[k]) > MAX_CONTEXT_LENGTH THEN context
  ELSE TakeRecent(chunks, k + 1,
         chunks[k] \o (IF context # <<>> THEN Separator \o context ELSE <<>>))

getGroundTruthContext(groundTruth) ==
  LET sortedData    == SortByDate(groundTruth)
      formattedData == [i \in 1..Len(sortedData) |-> FormatRecord(sortedData[i])]
      context       == JoinTexts(formattedData, Separator)
  IN  IF StrLen(context) > MAX_CONTEXT_LENGTH
      THEN TakeRecent(Reverse(formattedData), 1, <<>>)
      ELSE context

\* getSimulationDate: the start date moved on by week * 7 days.
getSimulationDate(start, week) == start + (week * 7)

\* date.toISOString() of a moment of the day numbered d.
IsoStr(d) == DateStr(d) \o "T12:00:00.000Z"

\* A SimulationSnapshot value as main holds it; a field that the object
\* lacks is <<>>, a field it has is <<value>>.
Snap(week, date, content, notes) ==
  [isNull |-> FALSE, week |-> week, date |-> date, content |-> content, notes |-> notes]

NullSnapshot ==
  [isNull |-> TRUE, week |-> <<>>, date |-> <<>>, content |-> <<>>, notes |-> <<>>]

\* A character JSON.stringify writes with a backslash.
Escape(tok) ==
  CASE tok = "\n" -> "\\n"
    [] tok = "\"" -> "\\\""
    [] OTHER -> tok

Unescape(tok) ==
  CASE tok = "\\n" -> "\n"
    [] tok = "\\\"" -> "\""
    [] OTHER -> tok

\* JSON.stringify of a string.
JsonString(t) == <<"\"">> \o [i \in 1..Len(t) |-> Escape(t[i])] \o <<"\"">>

\* The text of a JSON snapshot file holding week, date and content.
JsonSnapshotText(week, iso, content) ==
  <<"{\"week\": ", ToString(week), ", \"date\": \"", iso, "\", \"content\": ">>
    \o JsonString(content) \o <<"}">>

IsNumberToken(tok) == Len(tok) > 0 /\ DigitsAt(tok, 1, Len(tok))

\* Is t the text of a JSON object with the fields week, date and content?
IsJsonSnapshot(t) ==
  /\ Len(t) >= 8
  /\ t[1] = "{\"week\": "
  /\ IsNumberToken(t[2])
  /\ t[3] = ", \"date\": \""
  /\ t[5] = "\", \"content\": "
  /\ t[6] = "\""
  /\ t[Len(t) - 1] = "\""
  /\ t[Len(t)] = "}"
  /\ \A i \in 7..(Len(t) - 2) : t[i] # "\"" /\ t[i] # "\n"

\* JSON.parse: ok is FALSE when it throws.
JsonParse(t) ==
  IF t = <<"null">> THEN [ok |-> TRUE, value |-> NullSnapshot]
  ELSE IF IsJsonSnapshot(t)
  THEN [ok |-> TRUE,
        value |-> Snap(<<ParseInt(t[2])>>, <<t[4]>>,
                       <<[i \in 1..(Len(t) - 8) |-> Unescape(t[i + 6])]>>, <<>>)]
  ELSE [ok |-> FALSE, value |-> NullSnapshot]

\* What Bun.file(path).text() gives: ok is FALSE when it throws.
ReadOk(content) == [ok |-> TRUE, content |-> content]
ReadFails == [ok |-> FALSE, content |-> <<>>]

\* loadSnapshot (cli.ts): null on any error, the parsed JSON for a .json
\* path, { notes: content } otherwise.
loadSnapshot(path, read) ==
  IF ~read.ok THEN NullSnapshot
  ELSE IF EndsWith(path, ".json")
  THEN IF JsonParse(read.content).ok THEN JsonParse(read.content).value ELSE NullSnapshot
  ELSE Snap(<<>>, <<>>, <<>>, <<read.content>>)

\* Does loadSnapshot's try block throw (and debug-log) on this read?
loadSnapshotThrows(path, read) ==
  \/ ~read.ok
  \/ EndsWith(path, ".json") /\ ~JsonParse(read.content).ok

\* formatSnapshot: the notes when there are any, else every field as
\* `${key}:\n${JSON.stringify(value, null, 2)}`, joined by blank lines.
formatSnapshot(snapshot) ==
  IF snapshot.notes # <<>> THEN snapshot.notes[1]
  ELSE JoinTexts(
         (IF snapshot.week # <<>>
          THEN << <<"week:\n", ToString(snapshot.week[1])>> >> ELSE <<>>)
         \o (IF snapshot.date # <<>>
             THEN << <<"date:\n", "\"", snapshot.date[1], "\"">> >> ELSE <<>>)
         \o (IF snapshot.content # <<>>
             THEN << <<"content:\n">> \o JsonString(snapshot.content[1]) >> ELSE <<>>),
         <<"\n\n">>)

\* `${value}` of a field holding a number.
NumberField(f) == IF f = <<>> THEN "undefined" ELSE ToString(f[1])

\* `${value}` of a field holding a text.
TextField(f) == IF f = <<>> THEN <<"undefined">> ELSE f[1]

\* buildNarratorPrompt's context when the snapshot is not null.
SnapshotContext(snapshot) ==
  <<"Current simulation week: ", NumberField(snapshot.week), "\nCurrent state:\n\n">>
    \o TextField(snapshot.content) \o <<"\n">>

buildNarratorPrompt(snapshot, groundTruthText) ==
  <<"You are the Narrator", "\n\nCurrent Context:\n">>
    \o (IF ~snapshot.isNull THEN SnapshotContext(snapshot)
        ELSE <<"Starting new simulation.\n">>)
    \o <<"\n\nGround Truth Data:\n">> \o groundTruthText
    \o <<"\n\nAnalyze the current situation">>

\* generateInitialSnapshot's prompt.
InitialPrompt(groundTruthContext) ==
  <<"You are tasked with creating a comprehensive snapshot", "\n\nGround Truth Data:\n">>
    \o groundTruthContext \o <<"\n\nCreate a detailed markdown document">>

\* The markers of an expert section in the narrator's markdown.
SectionMark == "## "
ProfileMark == "\n### Expert Profile\n"
QueryMark   == "\n### Analysis Required\n"

\* [^\n]+ : a token that is one non-empty line of plain text.
IsLine(tok) ==
  /\ Len(tok) > 0
  /\ tok \notin {"\n", " ", SectionMark, ProfileMark, QueryMark}

\* /## ([^\n]+)\n### Expert Profile\n([^\n]+)\n### Analysis Required\n([^\n]+)/
\* at token i of the text.
SectionAt(t, i) ==
  /\ i + 5 <= Len(t)
  /\ t[i] = SectionMark /\ IsLine(t[i + 1])
  /\ t[i + 2] = ProfileMark /\ IsLine(t[i + 3])
  /\ t[i + 4] = QueryMark /\ IsLine(t[i + 5])

\* narratorResponse.match(/.../g) || [] : the matches from token i on, each
\* as the [domain, profile, query] the second match takes from it.
RECURSIVE SectionsFrom(_, _)
SectionsFrom(t, i) ==
  IF i > Len(t) THEN <<>>
  ELSE IF SectionAt(t, i)
  THEN <<[domain |-> t[i + 1], profile |-> t[i + 3], query |-> t[i + 5]]>>
         \o SectionsFrom(t, i + 6)
  ELSE SectionsFrom(t, i + 1)

\* A fan-out that consults no more than five experts.
FirstFiveSections(narratorResponse) ==
  LET all == SectionsFrom(narratorResponse, 1)
  IN  SubSeq(all, 1, IF Len(all) < 5 THEN Len(all) ELSE 5)

\* processExpertResponses: the expert sections of the narrator's reply.
expertSections(narratorResponse) == SectionsFrom(narratorResponse, 1)

expertPrompt(section) ==
  <<"You are a leading expert in ", section.domain, ". ", section.profile,
    "\n\nAnalyze the following aspects:\n", section.query,
    "\n\nProvide your analysis in markdown format">>

\* `# ${er.domain}\n${er.response}` of every expert, joined by blank lines.
ExpertAnalyses(sections, responses) ==
  JoinTexts([i \in 1..Len(sections) |->
               <<"# ", sections[i].domain, "\n">> \o responses[i]],
            <<"\n\n">>)

finalAnalysisPrompt(narratorResponse, sections, responses) ==
  <<"Based on the following information, create two detailed markdown documents",
    "\n\nInitial Analysis:\n">>
    \o narratorResponse
    \o <<"\n\nExpert Analyses:\n">>
    \o ExpertAnalyses(sections, responses)
    \o <<"\n\nProvide your response in two parts, separated by the marker [SPLIT]">>

SplitMark == "[SPLIT]"

\* String.prototype.split('[SPLIT]'): the texts between the markers.
RECURSIVE Split(_)
Split(t) ==
  IF \A i \in 1..Len(t) : t[i] # SplitMark THEN <<t>>
  ELSE LET i == CHOOSE i \in 1..Len(t) :
                  t[i] = SplitMark /\ \A j \in 1..(i - 1) : t[j] # SplitMark
       IN  <<SubSeq(t, 1, i - 1)>> \o Split(SubSeq(t, i + 1, Len(t)))

\* (snapshot?.week ?? 0) + 1
NextWeek(snapshot) == (IF snapshot.week = <<>> THEN 0 ELSE snapshot.week[1]) + 1

\* Does the try block of simulateOneWeek throw? report is undefined when
\* the reply holds no marker, and report.trim() then throws.
ParseThrows(finalResponse) == Len(Split(finalResponse)) < 2

\* A step that returns the two parts of the reply as they are, untrimmed.
StepResultUntrimmed(snapshot, finalResponse, start) ==
  LET week == NextWeek(snapshot)
      date == getSimulationDate(start, week)
  IN  [snapshot |-> Snap(<<week>>, <<IsoStr(date)>>, <<Split(finalResponse)[1]>>, <<>>),
       report   |-> Split(finalResponse)[2],
       date     |-> date]

\* What simulateOneWeek returns when its try block does not throw.
StepResult(snapshot, finalResponse, start) ==
  LET week == NextWeek(snapshot)
      date == getSimulationDate(start, week)
  IN  [snapshot |-> Snap(<<week>>, <<IsoStr(date)>>,
                         <<Trim(Split(finalResponse)[1])>>, <<>>),
       report   |-> Trim(Split(finalResponse)[2]),
       date     |-> date]

(* --------------------------- API replies ------------------------------- *)

\* One well-formed expert section, numbered i.
SectionText(i) ==
  <<SectionMark, "domain" \o ToString(i), ProfileMark, "profile" \o ToString(i),
    QueryMark, "query" \o ToString(i)>>

\* A section whose profile runs over two lines: the pattern does not match.
LongProfileSection ==
  <<SectionMark, "domainX", ProfileMark, "profile", "\n", "continued",
    QueryMark, "queryX">>

\* A narrator reply with n well-formed sections, and one with a two-line
\* profile after them when long is TRUE.
NarratorReply(n, long) ==
  <<"# Initial Assessment\n", "assessment", "\n", "# Required Expertise\n">>
    \o JoinTexts([i \in 1..n |-> SectionText(i)], <<"\n">>)
    \o (IF long THEN <<"\n">> \o LongProfileSection ELSE <<>>)
    \o <<"\n", "# Expected Developments\n", "developments">>

\* The replies of the narrator call; <<>> is a reply without content.
NarratorReplies ==
  {NarratorReply(n, FALSE) : n \in 0..MaxSections} \cup {NarratorReply(1, TRUE), <<>>}

\* The replies of the initial-snapshot call.
InitialReplies == { <<"# Global Situation", "\n", "calm">>, <<>> }

\* The reply of an expert call: the analysis the request numbered n got.
ExpertReply(n) == <<"analysis " \o ToString(n)>>

\* The replies of the final-analysis call.
FinalReplies ==
  { <<"new state", "\n", SplitMark, "\n", "briefing", "\n">>,
    <<"new state", SplitMark, "briefing", SplitMark, "appendix">>,
    <<SplitMark>>,
    <<"new state and briefing">>,
    <<>> }

\* The day the first run of a chain of runs executed.
ChainStart == NewDate(2025, 0, 2)

\* The text of the snapshot file the run of week w of a chain has written:
\* main writes formatSnapshot of the snapshot simulateOneWeek returned.
StepSnapshotText(w) ==
  formatSnapshot(
    StepResult(Snap(<<w - 1>>, <<IsoStr(getSimulationDate(ChainStart, w - 1))>>,
                    <<<<"old state">>>>, <<>>),
               <<"new state", "\n", SplitMark, "\n", "briefing", "\n">>,
               ChainStart).snapshot)

\* The texts a snapshot file may hold.
SnapshotFileTexts ==
  { <<"prior state", "\n", "of the world">>, <<"null">>, <<"{ not json">> }
    \cup {JsonSnapshotText(w, IsoStr(0), <<"state of week ", ToString(w)>>) : w \in 0..MaxWeek}
    \cup {StepSnapshotText(w) : w \in 1..MaxWeek}

(* ------------------------------ state ---------------------------------- *)

VARIABLES
  args,             \* process.argv.slice(2)
  apiKeySet,        \* is OPENAI_API_KEY set?
  today,            \* the day the run executes
  world,            \* the ./world directory
  outKind,          \* what is at the output path: "missing", "dir" or "file"
  pc,               \* where main stands
  outputDir,        \* main's outputDir
  snapshotPath,     \* main's snapshotPath
  stack,            \* the frames of processDirectory, innermost last
  groundTruth,      \* loadGroundTruth's records
  reads,            \* the paths readFile was called with
  startDate,        \* Narrator.SIMULATION_START_DATE
  requestCount,     \* APIHelper.requestCount
  calls,            \* the API requests sent, in the order sent
  snapshotFile,     \* what reading the file at snapshotPath gave
  currentSnapshot,  \* main's currentSnapshot
  groundTruthContext, \* the narrator's groundTruthContext, <<>> before
  narratorResponse, \* simulateOneWeek's narratorResponse
  sections,         \* the expert sections taken from it
  expertResponses,  \* per section <<>> while in flight, <<response>> after
  finalResponse,    \* simulateOneWeek's finalResponse
  result,           \* what simulateOneWeek returned, <<>> before
  written,          \* the files written, in the order written
  logs,             \* what the logger printed: <<level, message>>
  errors,           \* the operations that raised an error
  exitCode          \* -1 while running, then the exit status

cliVars  == <<args, apiKeySet, today, world, outputDir, snapshotPath>>
loadVars == <<stack, groundTruth, reads>>
apiVars  == <<requestCount, calls>>
snapVars == <<snapshotFile, currentSnapshot>>
stepVars == <<groundTruthContext, narratorResponse, sections, expertResponses,
              finalResponse, result>>

vars == <<args, apiKeySet, today, world, outKind, pc, outputDir, snapshotPath,
          stack, groundTruth, reads, startDate, requestCount, calls, snapshotFile,
          currentSnapshot, groundTruthContext,
          narratorResponse, sections, expertResponses, finalResponse, result,
          written, logs, errors, exitCode>>

\* The days a run may start on.
Days == {NewDate(2025, 0, 1) + k : k \in 1..MaxToday}

Init ==
  /\ args \in ArgVectors
  /\ apiKeySet \in BOOLEAN
  /\ today \in Days
  /\ world \in Worlds
  /\ outKind \in {"missing", "dir", "file"}
  /\ pc = "start"
  /\ outputDir = Undefined
  /\ snapshotPath = Undefined
  /\ stack = <<>>
  /\ groundTruth = <<>>
  /\ reads = {}
  /\ startDate = 0
  /\ requestCount = 0
  /\ calls = <<>>
  /\ snapshotFile = ReadFails
  /\ currentSnapshot = NullSnapshot
  /\ groundTruthContext = <<>>
  /\ narratorResponse = <<>>
  /\ sections = <<>>
  /\ expertResponses = <<>>
  /\ finalResponse = <<>>
  /\ result = <<>>
  /\ written = <<>>
  /\ logs = {}
  /\ errors = {}
  /\ exitCode = -1

(* ----------------------------- main (cli.ts) --------------------------- *)

\* An error leaves the try block: main's catch is next.
Throw(what) ==
  /\ errors' = errors \cup {what}
  /\ pc' = "catch"

\* main, before the try block: the flags are read.
ParseArgs ==
  /\ pc = "start"
  /\ outputDir' = OutputDirOf(args)
  /\ snapshotPath' = SnapshotPathOf(args)
  /\ pc' = "mkdir"
  /\ UNCHANGED <<args, apiKeySet, today, world, outKind, loadVars, startDate, apiVars,
                 snapVars, stepVars, written, logs, errors, exitCode>>

\* An ensureDirectoryExists that returns without having made the directory.
MkdirNoCreate ==
  /\ pc = "mkdir"
  /\ outputDir # Undefined
  /\ outKind \in {"missing", "dir"}
  /\ stack' = <<Frame("./world")>>
  /\ pc' = "loadGroundTruth"
  /\ UNCHANGED <<cliVars, outKind, groundTruth, reads, startDate, apiVars, snapVars,
                 stepVars, written, logs, errors, exitCode>>

\* ensureDirectoryExists: mkdir(dir, {recursive: true}) returns; the
\* directory is there afterwards.
MkdirOk ==
  /\ pc = "mkdir"
  /\ outputDir # Undefined
  /\ outKind \in {"missing", "dir"}
  /\ outKind' = "dir"
  /\ stack' = <<Frame("./world")>>
  /\ pc' = "loadGroundTruth"
  /\ UNCHANGED <<cliVars, groundTruth, reads, startDate, apiVars, snapVars, stepVars,
                 written, logs, errors, exitCode>>

\* ensureDirectoryExists: mkdir throws EEXIST, which it does under
\* {recursive: true} when the path is there and is no directory; the catch
\* block drops the error.
MkdirEexist ==
  /\ pc = "mkdir"
  /\ outputDir # Undefined
  /\ outKind = "file"
  /\ errors' = errors \cup {"mkdir EEXIST"}
  /\ stack' = <<Frame("./world")>>
  /\ pc' = "loadGroundTruth"
  /\ UNCHANGED <<cliVars, outKind, groundTruth, reads, startDate, apiVars, snapVars,
                 stepVars, written, logs, exitCode>>

\* ensureDirectoryExists: mkdir throws another error (no path given, no
\* permission) and the catch block throws it on.
MkdirThrows ==
  /\ pc = "mkdir"
  /\ outputDir = Undefined \/ outKind = "missing"
  /\ Throw("mkdir")
  /\ UNCHANGED <<cliVars, outKind, loadVars, startDate, apiVars, snapVars,
                 stepVars, written, logs, exitCode>>

(* -------------- loadGroundTruth (groundTruthLoader.ts) ----------------- *)

Top == stack[Len(stack)]

SetTop(frame) == [stack EXCEPT ![Len(stack)] = frame]

\* processDirectory: readdir returns the entries of the directory.
ReaddirOk ==
  /\ pc = "loadGroundTruth"
  /\ stack # <<>> /\ ~Top.listed
  /\ Top.dir \in DOMAIN world.dirs
  /\ stack' = SetTop([Top EXCEPT !.listed = TRUE, !.entries = world.dirs[Top.dir]])
  /\ UNCHANGED <<cliVars, outKind, pc, groundTruth, reads, startDate, apiVars, snapVars,
                 stepVars, written, logs, errors, exitCode>>

\* processDirectory: readdir throws; nothing in the loader catches it.
ReaddirThrows ==
  /\ pc = "loadGroundTruth"
  /\ stack # <<>> /\ ~Top.listed
  /\ Throw("readdir")
  /\ UNCHANGED <<cliVars, outKind, loadVars, startDate, apiVars, snapVars,
                 stepVars, written, logs, exitCode>>

\* A loader that reads the files of the directory it is given and passes
\* over its subdirectories.
SkipDirectory ==
  /\ pc = "loadGroundTruth"
  /\ stack # <<>> /\ Top.listed /\ Top.i <= Len(Top.entries)
  /\ Top.entries[Top.i].isDir
  /\ stack' = SetTop([Top EXCEPT !.i = Top.i + 1])
  /\ UNCHANGED <<cliVars, outKind, pc, groundTruth, reads, startDate, apiVars, snapVars,
                 stepVars, written, logs, errors, exitCode>>

\* processDirectory: the next entry is a directory, and is processed.
EnterDirectory ==
  /\ pc = "loadGroundTruth"
  /\ stack # <<>> /\ Top.listed /\ Top.i <= Len(Top.entries)
  /\ Top.entries[Top.i].isDir
  /\ stack' = Append(SetTop([Top EXCEPT !.i = Top.i + 1]),
                     Frame(Join(Top.dir, Top.entries[Top.i].name)))
  /\ UNCHANGED <<cliVars, outKind, pc, groundTruth, reads, startDate, apiVars, snapVars,
                 stepVars, written, logs, errors, exitCode>>

\* processDirectory: the next entry is a file; readFile returns its text
\* and a record is pushed.
ReadFileOk ==
  /\ pc = "loadGroundTruth"
  /\ stack # <<>> /\ Top.listed /\ Top.i <= Len(Top.entries)
  /\ ~Top.entries[Top.i].isDir
  /\ LET entry    == Top.entries[Top.i]
         fullPath == Join(Top.dir, entry.name)
     IN  groundTruth' = Append(groundTruth,
           GroundTruthData(fullPath, Utf8Decode(world.files[fullPath].content),
             extractDateFromFilename(entry.name, today, world.files[fullPath].created)))
  /\ reads' = reads \cup {Join(Top.dir, Top.entries[Top.i].name)}
  /\ stack' = SetTop([Top EXCEPT !.i = Top.i + 1])
  /\ logs' = logs \cup {<<"debug", "Loaded ground truth">>}
  /\ UNCHANGED <<cliVars, outKind, pc, startDate, apiVars, snapVars, stepVars,
                 written, errors, exitCode>>

\* processDirectory: readFile throws; the error is debug-logged and the
\* loop goes on with the next entry.
ReadFileThrows ==
  /\ pc = "loadGroundTruth"
  /\ stack # <<>> /\ Top.listed /\ Top.i <= Len(Top.entries)
  /\ ~Top.entries[Top.i].isDir
  /\ reads' = reads \cup {Join(Top.dir, Top.entries[Top.i].name)}
  /\ stack' = SetTop([Top EXCEPT !.i = Top.i + 1])
  /\ errors' = errors \cup {"readFile"}
  /\ logs' = logs \cup {<<"debug", "Error loading file">>}
  /\ UNCHANGED <<cliVars, outKind, pc, groundTruth, startDate, apiVars, snapVars,
                 stepVars, written, exitCode>>

\* processDirectory returns: its for loop is over.
LeaveDirectory ==
  /\ pc = "loadGroundTruth"
  /\ stack # <<>> /\ Top.listed /\ Top.i > Len(Top.entries)
  /\ stack' = SubSeq(stack, 1, Len(stack) - 1)
  /\ pc' = IF Len(stack) = 1 THEN "setup" ELSE pc
  /\ UNCHANGED <<cliVars, outKind, groundTruth, reads, startDate, apiVars, snapVars,
                 stepVars, written, logs, errors, exitCode>>

(* ------------------ APIHelper.sendPrompt (apiHelper.ts) ---------------- *)

\* A request as sent: its number, what it is for, its prompt, and whether
\* it is in flight, has returned ("ok") or has thrown ("failed").
Call(request, kind, prompt) ==
  [request |-> request, kind |-> kind, prompt |-> prompt, status |-> "inflight"]

\* sendPrompt up to its await: the count goes up and the request is sent.
Sent(cs, count, kind, prompt) == Append(cs, Call(count + 1, kind, prompt))

\* The requests of a kind, as positions of calls.
CallsOf(kind) == {i \in 1..Len(calls) : calls[i].kind = kind}

InFlight == {i \in 1..Len(calls) : calls[i].status = "inflight"}

\* sendPrompt after its await: the request at position i has returned.
Returned(i) ==
  /\ calls' = [calls EXCEPT ![i].status = "ok"]
  /\ logs' = logs \cup {<<"info", "API Request completed">>}

\* A sendPrompt that sends the prompt again when the request threw.
FailedAndResent(i) ==
  /\ calls' = Append([calls EXCEPT ![i].status = "failed"],
                     Call(Len(calls) + 1, calls[i].kind, calls[i].prompt))
  /\ logs' = logs \cup {<<"debug", "Error with API Request">>}
  /\ errors' = errors \cup {"api"}
  /\ pc' = pc

\* sendPrompt's catch block: the request at position i threw; the error is
\* debug-logged and thrown on.
Failed(i) ==
  /\ calls' = [calls EXCEPT ![i].status = "failed"]
  /\ logs' = logs \cup {<<"debug", "Error with API Request">>}
  /\ Throw("api")

(* ----------------------- main, after the loading ----------------------- *)

\* A main that generates the initial snapshot whether or not a snapshot path
\* was given.
SetupAlwaysInitial ==
  /\ pc = "setup"
  /\ apiKeySet
  /\ startDate' = today
  /\ pc' = "initial"
  /\ UNCHANGED <<cliVars, outKind, loadVars, apiVars, snapVars, stepVars,
                 written, logs, errors, exitCode>>

\* new APIHelper() and new Narrator(apiHelper); then the branch on
\* snapshotPath.
Setup ==
  /\ pc = "setup"
  /\ apiKeySet
  /\ startDate' = today
  /\ pc' = IF Truthy(snapshotPath) THEN "loadSnapshot" ELSE "initial"
  /\ UNCHANGED <<cliVars, outKind, loadVars, apiVars, snapVars, stepVars,
                 written, logs, errors, exitCode>>

\* new APIHelper(): the client's constructor throws without an API key.
SetupThrows ==
  /\ pc = "setup"
  /\ ~apiKeySet
  /\ Throw("setup")
  /\ UNCHANGED <<cliVars, outKind, loadVars, startDate, apiVars, snapVars,
                 stepVars, written, logs, exitCode>>

\* currentSnapshot = await loadSnapshot(snapshotPath)
LoadSnapshot ==
  /\ pc = "loadSnapshot"
  /\ \E read \in {ReadFails} \cup {ReadOk(t) : t \in SnapshotFileTexts} :
       /\ snapshotFile' = read
       /\ currentSnapshot' = loadSnapshot(snapshotPath, read)
       /\ IF loadSnapshotThrows(snapshotPath, read)
          THEN /\ errors' = errors \cup {"loadSnapshot"}
               /\ logs' = logs \cup {<<"debug", "Error loading snapshot">>}
          ELSE UNCHANGED <<errors, logs>>
  /\ pc' = "simulate"
  /\ UNCHANGED <<cliVars, outKind, loadVars, startDate, apiVars, stepVars, written,
                 exitCode>>

\* generateInitialSnapshot up to its await.
SendInitial ==
  /\ pc = "initial"
  /\ groundTruthContext' = getGroundTruthContext(groundTruth)
  /\ calls' = Sent(calls, requestCount, "initial", InitialPrompt(groundTruthContext'))
  /\ requestCount' = requestCount + 1
  /\ pc' = "awaitInitial"
  /\ UNCHANGED <<cliVars, outKind, loadVars, startDate, snapVars, narratorResponse,
                 sections, expertResponses, finalResponse, result,
                 written, logs, errors, exitCode>>

\* generateInitialSnapshot returns the week-0 snapshot.
InitialReturns ==
  /\ pc = "awaitInitial"
  /\ \E content \in InitialReplies :
       currentSnapshot' = Snap(<<0>>, <<IsoStr(startDate)>>, <<content>>, <<>>)
  /\ Returned(Len(calls))
  /\ pc' = "writeInitial"
  /\ UNCHANGED <<cliVars, outKind, loadVars, startDate, requestCount, snapshotFile, stepVars,
                 written, errors, exitCode>>

InitialFails ==
  /\ pc = "awaitInitial"
  /\ Failed(Len(calls))
  /\ UNCHANGED <<cliVars, outKind, loadVars, startDate, requestCount, snapVars,
                 stepVars, written, exitCode>>

\* A file as written: its path and its text.
Written(path, content) == [path |-> path, content |-> content]

\* writeFile needs the directory of the path to be there.
CanWrite == outKind = "dir"

\* The initial snapshot's path: named with today's date.
initialSnapshotPath == Join(outputDir, "snapshot-" \o DateStr(today) \o "-initial.txt")

WriteInitial ==
  /\ pc = "writeInitial"
  /\ CanWrite
  /\ written' = Append(written, Written(initialSnapshotPath, formatSnapshot(currentSnapshot)))
  /\ logs' = logs \cup {<<"info", "Initial snapshot written">>}
  /\ pc' = "simulate"
  /\ UNCHANGED <<cliVars, outKind, loadVars, startDate, apiVars, snapVars,
                 stepVars, errors, exitCode>>

\* writeFile throws: the directory is not there, or the disk refuses.
WriteInitialThrows ==
  /\ pc = "writeInitial"
  /\ Throw("writeFile")
  /\ UNCHANGED <<cliVars, outKind, loadVars, startDate, apiVars, snapVars,
                 stepVars, written, logs, exitCode>>

(* ---------------- Narrator.simulateOneWeek (narrator.ts) --------------- *)

\* simulateOneWeek up to the await of the narrator call.
SendNarrator ==
  /\ pc = "simulate"
  /\ groundTruthContext' = getGroundTruthContext(groundTruth)
  /\ calls' = Sent(calls, requestCount, "narrator",
                   buildNarratorPrompt(currentSnapshot, groundTruthContext'))
  /\ requestCount' = requestCount + 1
  /\ pc' = "awaitNarrator"
  /\ UNCHANGED <<cliVars, outKind, loadVars, startDate, snapVars, narratorResponse,
                 sections, expertResponses, finalResponse, result,
                 written, logs, errors, exitCode>>

NarratorReturns ==
  /\ pc = "awaitNarrator"
  /\ \E reply \in NarratorReplies : narratorResponse' = reply
  /\ Returned(Len(calls))
  /\ pc' = "consult"
  /\ UNCHANGED <<groundTruthContext, cliVars, outKind, loadVars, startDate, requestCount, snapVars,
                 sections, expertResponses, finalResponse, result, written, errors,
                 exitCode>>

NarratorFails ==
  /\ pc = "awaitNarrator"
  /\ Failed(Len(calls))
  /\ UNCHANGED <<cliVars, outKind, loadVars, startDate, requestCount, snapVars,
                 stepVars, written, exitCode>>

\* sendPrompt up to its await, for every section in turn.
RECURSIVE SentAll(_, _, _, _)
SentAll(cs, count, secs, k) ==
  IF k > Len(secs) THEN cs
  ELSE SentAll(Sent(cs, count, "expert", expertPrompt(secs[k])), count + 1, secs, k + 1)

\* processExpertResponses up to Promise.all: map runs every async callback
\* up to its await, so the request of every section is sent.
ConsultExperts ==
  /\ pc = "consult"
  /\ sections' = expertSections(narratorResponse)
  /\ calls' = SentAll(calls, requestCount, sections', 1)
  /\ requestCount' = requestCount + Len(sections')
  /\ expertResponses' = [i \in 1..Len(sections') |-> <<>>]
  /\ pc' = "awaitExperts"
  /\ UNCHANGED <<groundTruthContext, cliVars, outKind, loadVars, startDate, snapVars,
                 narratorResponse, finalResponse, result, written, logs, errors,
                 exitCode>>

\* The position in calls of the request of section i: the expert requests
\* follow the narrator's.
ExpertCall(i) == Len(calls) - Len(sections) + i

\* A fan-out that collects the results in the order the requests complete.
SettleAtNextFree(responses, i, response) ==
  LET free == CHOOSE k \in 1..Len(responses) :
                responses[k] = <<>> /\ \A j \in 1..(k - 1) : responses[j] # <<>>
  IN  [responses EXCEPT ![free] = <<response>>]

\* Promise.all keeps each result at the index of its promise.
Settle(responses, i, response) == [responses EXCEPT ![i] = <<response>>]

\* The request of section i returns, in whatever order.
ExpertReturns(i) ==
  /\ pc = "awaitExperts"
  /\ i \in 1..Len(sections)
  /\ expertResponses[i] = <<>>
  /\ expertResponses' = Settle(expertResponses, i, ExpertReply(calls[ExpertCall(i)].request))
  /\ Returned(ExpertCall(i))
  /\ UNCHANGED <<groundTruthContext, cliVars, outKind, pc, loadVars, startDate, requestCount,
                 snapVars, narratorResponse, sections, finalResponse, result,
                 written, errors, exitCode>>

\* A fan-out that waits for every request to settle and carries on without
\* the analysis of a failed one.
SettlesWithout(i) ==
  /\ calls' = [calls EXCEPT ![ExpertCall(i)].status = "failed"]
  /\ logs' = logs \cup {<<"debug", "Error with API Request">>}
  /\ errors' = errors \cup {"api"}
  /\ expertResponses' = Settle(expertResponses, i, <<"undefined">>)
  /\ pc' = pc

\* The promise of section i rejects: Promise.all rejects with it, and the
\* await in simulateOneWeek throws.
Rejects(i) ==
  /\ Failed(ExpertCall(i))
  /\ expertResponses' = expertResponses

\* The request of section i throws, whatever the other requests do.
ExpertFails(i) ==
  /\ pc = "awaitExperts"
  /\ i \in 1..Len(sections)
  /\ expertResponses[i] = <<>>
  /\ Rejects(i)
  /\ UNCHANGED <<groundTruthContext, cliVars, outKind, loadVars, startDate, requestCount, snapVars,
                 narratorResponse, sections, finalResponse, result, written, exitCode>>

\* A fan-out that goes on as soon as one request has returned.
AnySettled(responses) ==
  responses = <<>> \/ \E i \in 1..Len(responses) : responses[i] # <<>>

\* Promise.all resolves when every promise has.
AllSettled(responses) == \A i \in 1..Len(responses) : responses[i] # <<>>

\* `${er.response}`
ResponseOf(r) == IF r = <<>> THEN <<"undefined">> ELSE r[1]

\* Promise.all resolves once every request has returned; the final-analysis
\* prompt is built and sent.
SendFinal ==
  /\ pc = "awaitExperts"
  /\ AllSettled(expertResponses)
  /\ calls' = Sent(calls, requestCount, "final",
                   finalAnalysisPrompt(narratorResponse, sections,
                     [i \in 1..Len(sections) |-> ResponseOf(expertResponses[i])]))
  /\ requestCount' = requestCount + 1
  /\ logs' = logs \cup {<<"info", "Consulting domain experts">>}
  /\ pc' = "awaitFinal"
  /\ UNCHANGED <<cliVars, outKind, loadVars, startDate, snapVars, stepVars,
                 written, errors, exitCode>>

FinalReturns ==
  /\ pc = "awaitFinal"
  /\ \E reply \in FinalReplies : finalResponse' = reply
  /\ Returned(Len(calls))
  /\ pc' = "parse"
  /\ UNCHANGED <<groundTruthContext, cliVars, outKind, loadVars, startDate, requestCount, snapVars,
                 narratorResponse, sections, expertResponses, result, written, errors,
                 exitCode>>

FinalFails ==
  /\ pc = "awaitFinal"
  /\ Failed(Len(calls))
  /\ UNCHANGED <<cliVars, outKind, loadVars, startDate, requestCount, snapVars,
                 stepVars, written, exitCode>>

\* The try block of simulateOneWeek: the reply is split and the step's
\* result returned.
ParseFinal ==
  /\ pc = "parse"
  /\ ~ParseThrows(finalResponse)
  /\ result' = <<StepResult(currentSnapshot, finalResponse, startDate)>>
  /\ logs' = logs \cup {<<"info", "Week simulation complete">>}
  /\ pc' = "writeSnapshot"
  /\ UNCHANGED <<groundTruthContext, cliVars, outKind, loadVars, startDate, apiVars, snapVars,
                 narratorResponse, sections, expertResponses, finalResponse, written,
                 errors, exitCode>>

\* The catch block of simulateOneWeek: debug-logs and throws 'Failed to
\* generate simulation output'.
ParseFinalThrows ==
  /\ pc = "parse"
  /\ ParseThrows(finalResponse)
  /\ logs' = logs \cup {<<"debug", "Error parsing final response">>}
  /\ Throw("parse")
  /\ UNCHANGED <<cliVars, outKind, loadVars, startDate, apiVars, snapVars,
                 stepVars, written, exitCode>>

(* --------------------- main: the step's output ------------------------- *)

\* File names that carry the date of the day the run executes.
CurrentDateStr(res, now) == DateStr(now)

\* dateStr = date.toISOString().split('T')[0], of the date the step returned.
dateStr(res, now) == DateStr(res.date)

outputSnapshotPath == Join(outputDir, "snapshot-" \o dateStr(result[1], today) \o ".txt")

\* A report that takes the snapshot's path, and so overwrites it.
ReportOverSnapshot == outputSnapshotPath

reportPath == Join(outputDir, "report-" \o dateStr(result[1], today) \o ".md")

WriteSnapshot ==
  /\ pc = "writeSnapshot"
  /\ CanWrite
  /\ written' = Append(written,
                  Written(outputSnapshotPath, formatSnapshot(result[1].snapshot)))
  /\ pc' = "writeReport"
  /\ UNCHANGED <<cliVars, outKind, loadVars, startDate, apiVars, snapVars,
                 stepVars, logs, errors, exitCode>>

WriteSnapshotThrows ==
  /\ pc = "writeSnapshot"
  /\ Throw("writeFile")
  /\ UNCHANGED <<cliVars, outKind, loadVars, startDate, apiVars, snapVars,
                 stepVars, written, logs, exitCode>>

\* The report is written and main returns: the process ends with status 0.
WriteReport ==
  /\ pc = "writeReport"
  /\ CanWrite
  /\ written' = Append(written, Written(reportPath, result[1].report))
  /\ logs' = logs \cup {<<"info", "Snapshot written">>, <<"info", "Report written">>}
  /\ pc' = "done"
  /\ exitCode' = 0
  /\ UNCHANGED <<cliVars, outKind, loadVars, startDate, apiVars, snapVars,
                 stepVars, errors>>

WriteReportThrows ==
  /\ pc = "writeReport"
  /\ Throw("writeFile")
  /\ UNCHANGED <<cliVars, outKind, loadVars, startDate, apiVars, snapVars,
                 stepVars, written, logs, exitCode>>

\* A catch block that logs the error and lets the process end by itself,
\* with status 0.
CatchWithoutExit ==
  /\ pc = "catch"
  /\ logs' = logs \cup {<<"error", "Simulation failed">>}
  /\ exitCode' = 0
  /\ pc' = "exited"
  /\ UNCHANGED <<cliVars, outKind, loadVars, startDate, apiVars, snapVars,
                 stepVars, written, errors>>

\* main's catch block: error('Simulation failed:', err); process.exit(1).
Catch ==
  /\ pc = "catch"
  /\ logs' = logs \cup {<<"error", "Simulation failed">>}
  /\ exitCode' = 1
  /\ pc' = "exited"
  /\ UNCHANGED <<cliVars, outKind, loadVars, startDate, apiVars, snapVars,
                 stepVars, written, errors>>

Next ==
  \/ ParseArgs
  \/ MkdirOk
  \/ MkdirEexist
  \/ MkdirThrows
  \/ ReaddirOk
  \/ ReaddirThrows
  \/ EnterDirectory
  \/ ReadFileOk
  \/ ReadFileThrows
  \/ LeaveDirectory
  \/ Setup
  \/ SetupThrows
  \/ LoadSnapshot
  \/ SendInitial
  \/ InitialReturns
  \/ InitialFails
  \/ WriteInitial
  \/ WriteInitialThrows
  \/ SendNarrator
  \/ NarratorReturns
  \/ NarratorFails
  \/ ConsultExperts
  \/ \E i \in 1..MaxSections : ExpertReturns(i)
  \/ \E i \in 1..MaxSections : ExpertFails(i)
  \/ SendFinal
  \/ FinalReturns
  \/ FinalFails
  \/ ParseFinal
  \/ ParseFinalThrows
  \/ WriteSnapshot
  \/ WriteSnapshotThrows
  \/ WriteReport
  \/ WriteReportThrows
  \/ Catch

Spec == Init /\ [][Next]_vars

(* ---------- the ground-truth context of a flat world directory --------- *)

\* main after ensureDirectoryExists, started without flags in a place whose
\* world directory is flat.
ContextInit ==
  /\ args = <<>>
  /\ apiKeySet = TRUE
  /\ today \in Days
  /\ world \in FlatWorlds
  /\ outKind = "dir"
  /\ pc = "loadGroundTruth"
  /\ outputDir = OutputDirOf(<<>>)
  /\ snapshotPath = SnapshotPathOf(<<>>)
  /\ stack = <<Frame("./world")>>
  /\ groundTruth = <<>>
  /\ reads = {}
  /\ startDate = 0
  /\ requestCount = 0
  /\ calls = <<>>
  /\ snapshotFile = ReadFails
  /\ currentSnapshot = NullSnapshot
  /\ groundTruthContext = <<>>
  /\ narratorResponse = <<>>
  /\ sections = <<>>
  /\ expertResponses = <<>>
  /\ finalResponse = <<>>
  /\ result = <<>>
  /\ written = <<>>
  /\ logs = {}
  /\ errors = {}
  /\ exitCode = -1

\* The run up to the first prompt: the files are loaded and
\* generateInitialSnapshot builds the context.
ContextNext ==
  \/ ReaddirOk
  \/ ReadFileOk
  \/ ReadFileThrows
  \/ LeaveDirectory
  \/ Setup
  \/ SendInitial

ContextSpec == ContextInit /\ [][ContextNext]_vars

(* -------- APIHelper.sendPrompt with function calling (apiHelper.ts) ---- *)

\* An Outcome: { outcome, weight }.
Outcome(outcome, weight) == [outcome |-> outcome, weight |-> weight]

\* The lists of outcomes a function call may carry: the i-th outcome is
\* named after i, and the second has the empty string as its name.
OutcomeLists ==
  LET OutcomeName(i) == IF i = 2 THEN "" ELSE "outcome" \o ToString(i)
  IN  UNION {{[i \in 1..n |-> Outcome(OutcomeName(i), w[i])] : w \in [1..n -> {0, 1}]}
               : n \in 0..MaxOutcomes}

\* The JSON text of an outcome and of { outcomes: [...] }.
OutcomesJson(list) ==
  LET OutcomeJson(o) ==
        <<"{\"outcome\":", "\"", o.outcome, "\"", ",\"weight\":", ToString(o.weight), "}">>
  IN  <<"{\"outcomes\":[">>
        \o JoinTexts([i \in 1..Len(list) |-> OutcomeJson(list[i])], <<",">>)
        \o <<"]}">>

\* Is the text the JSON of { outcomes: [...] }? Outcome i takes the 7 tokens
\* from 8 * i - 6 on, with a comma after each but the last.
IsOutcomesJson(t) ==
  /\ Len(t) >= 2
  /\ t[1] = "{\"outcomes\":[" /\ t[Len(t)] = "]}"
  /\ Len(t) = 2 \/ Len(t) % 8 = 1
  /\ \A i \in 1..(Len(t) \div 8) :
       LET at == 8 * i - 6
       IN  /\ t[at] = "{\"outcome\":" /\ t[at + 1] = "\"" /\ t[at + 3] = "\""
           /\ t[at + 2] # "\""
           /\ t[at + 4] = ",\"weight\":" /\ IsNumberToken(t[at + 5])
           /\ t[at + 6] = "}"
           /\ i < Len(t) \div 8 => t[at + 7] = ","

\* Argument texts that are JSON without outcomes, and one cut short.
EmptyObjectJson == <<"{}">>
CityJson        == <<"{\"city\":", "\"", "Paris", "\"", "}">>
CutShortJson    == <<"{\"city\":", "\"", "Par">>

\* JSON.parse(message.function_call.arguments): ok is FALSE when it throws;
\* the value's outcomes is <<>> for an object without that field, <<list>>
\* with it.
JsonParseArguments(t) ==
  IF IsOutcomesJson(t)
  THEN [ok |-> TRUE,
        outcomes |-> << [i \in 1..(Len(t) \div 8) |->
                           Outcome(t[8 * i - 4], ParseInt(t[8 * i - 1]))] >>]
  ELSE IF t \in {EmptyObjectJson, CityJson} THEN [ok |-> TRUE, outcomes |-> <<>>]
  ELSE [ok |-> FALSE, outcomes |-> <<>>]

\* Math.random() is RandNumerator / RandDenominator, in [0, 1).
RandDenominator == 4

RECURSIVE SumWeights(_, _)
SumWeights(outcomes, n) ==
  IF n = 0 THEN 0 ELSE SumWeights(outcomes, n - 1) + outcomes[n].weight

\* What a function gives: a returned text, or a thrown error.
Returns(value) == [threw |-> FALSE, value |-> value]
Throws == [threw |-> TRUE, value |-> <<>>]

\* A sampler whose loop is not followed by a return.
sampleWithoutFallback(outcomes, r) ==
  IF outcomes = <<>> THEN Throws
  ELSE LET list  == outcomes[1]
           total == SumWeights(list, Len(list))
           hit(i) == total # 0 /\ r * total <= SumWeights(list, i) * RandDenominator
       IN  IF \E i \in 1..Len(list) : hit(i)
           THEN Returns(<<list[CHOOSE i \in 1..Len(list) :
                                 hit(i) /\ \A j \in 1..(i - 1) : ~hit(j)].outcome>>)
           ELSE Returns(<<Undefined>>)

\* sampleFromWeightedOutcomes(args.outcomes) with Math.random() = r /
\* RandDenominator: the first outcome whose cumulated normalized weight
\* reaches the random number, the last one when none does (every weight is
\* NaN when the total is 0, and no comparison with NaN holds). It throws a
\* TypeError when outcomes is undefined, and on [] when it reads the outcome
\* of the element at index -1.
sampleFromWeightedOutcomes(outcomes, r) ==
  IF outcomes = <<>> THEN Throws
  ELSE LET list  == outcomes[1]
           total == SumWeights(list, Len(list))
           hit(i) == total # 0 /\ r * total <= SumWeights(list, i) * RandDenominator
       IN  IF list = <<>> THEN Throws
           ELSE IF \E i \in 1..Len(list) : hit(i)
           THEN Returns(<<list[CHOOSE i \in 1..Len(list) :
                                 hit(i) /\ \A j \in 1..(i - 1) : ~hit(j)].outcome>>)
           ELSE Returns(<<list[Len(list)].outcome>>)

\* A string as JSON.stringify writes it, character by character.
RECURSIVE EscapeChars(_)
EscapeChars(str) ==
  IF Len(str) = 0 THEN ""
  ELSE (IF CharAt(str, 1) = "\"" THEN "\\\""
        ELSE IF CharAt(str, 1) = "\n" THEN "\\n"
        ELSE IF CharAt(str, 1) = "\\" THEN "\\\\"
        ELSE CharAt(str, 1))
       \o EscapeChars(SubSeq(str, 2, Len(str)))

JsonQuote(t) == <<"\"">> \o [i \in 1..Len(t) |-> EscapeChars(t[i])] \o <<"\"">>

\* JSON.stringify(message.function_call)
StringifyCall(fc) ==
  <<"{\"name\":">> \o JsonQuote(<<fc.name>>) \o <<",\"arguments\":">>
    \o JsonQuote(fc.arguments) \o <<"}">>

SampleName == "sample_from_weighted_outcomes"

\* A reply of chat.completions.create: choices is empty or holds one
\* message; a field the message lacks (or holds as null) is <<>>; a
\* function call is { name, arguments }.
ApiResponses ==
  LET FunctionCall(name, arguments) == [name |-> name, arguments |-> arguments]
      Message(content, function_call) ==
        [content |-> content, function_call |-> function_call]
      Response(choices) == [choices |-> choices]
  IN
  { Response(<<>>),
    Response(<<Message(<<>>, <<>>)>>),
    Response(<<Message(<<<<>>>>, <<>>)>>),
    Response(<<Message(<<<<"hello">>>>, <<>>)>>),
    Response(<<Message(<<>>, <<FunctionCall(SampleName, EmptyObjectJson)>>)>>),
    Response(<<Message(<<>>, <<FunctionCall(SampleName, CutShortJson)>>)>>),
    Response(<<Message(<<>>, <<FunctionCall("get_weather", CityJson)>>)>>),
    Response(<<Message(<<<<"calling">>>>, <<FunctionCall("get_weather", CutShortJson)>>)>>) }
  \cup {Response(<<Message(<<>>, <<FunctionCall(SampleName, OutcomesJson(list))>>)>>)
          : list \in OutcomeLists}

\* sendPrompt after its await, inside the try block: what it gives for the
\* reply, with Math.random() = r / RandDenominator.
ReplyOf(response, r) ==
  IF response.choices # <<>> /\ response.choices[1].function_call # <<>>
  THEN LET fc == response.choices[1].function_call[1]
           parsed == JsonParseArguments(fc.arguments)
       IN  IF ~parsed.ok THEN Throws
           ELSE IF fc.name = SampleName
           THEN sampleFromWeightedOutcomes(parsed.outcomes, r)
           ELSE Returns(StringifyCall(fc))
  ELSE IF response.choices # <<>> /\ response.choices[1].content # <<>>
  THEN Returns(response.choices[1].content[1])
  ELSE Returns(<<>>)

\* The arguments sendPrompt is called with: messages (ChatMessage, summary
\* is <<>> when absent) and functions.
PromptArguments ==
  LET ChatMessage(role, content, summary) ==
        [role |-> role, content |-> content, summary |-> summary]
  IN
  { [messages |-> <<ChatMessage("user", "what next?", <<>>)>>, functions |-> <<>>],
    [messages |-> <<ChatMessage("system", "you decide", <<"rules">>),
                    ChatMessage("user", "what next?", <<>>)>>,
     functions |-> <<SampleName, "get_weather">>] }

\* requestPayload: the messages without their summaries, and the functions
\* when there are any.
RequestPayload(messages, functions) ==
  [messages  |-> [i \in 1..Len(messages) |->
                   [role |-> messages[i].role, content |-> messages[i].content]],
   functions |-> IF Len(functions) > 0 THEN <<functions>> ELSE <<>>]

\* A sendPrompt call: its request number, its payload, whether it is in
\* flight, has returned ("ok") or has thrown ("failed"), the reply it got
\* (<<>> when create threw) and the text it returned.
PromptCall(request, payload) ==
  [request |-> request, payload |-> payload, status |-> "inflight",
   response |-> <<>>, result |-> <<>>]

\* A fresh APIHelper: no request made yet.
ApiInit ==
  /\ args = <<>>
  /\ apiKeySet = TRUE
  /\ today = NewDate(2025, 0, 2)
  /\ world = FlatWorld(<<>>, <<>>)
  /\ outKind = "dir"
  /\ pc = "api"
  /\ outputDir = Undefined
  /\ snapshotPath = Undefined
  /\ stack = <<>>
  /\ groundTruth = <<>>
  /\ reads = {}
  /\ startDate = 0
  /\ requestCount = 0
  /\ calls = <<>>
  /\ snapshotFile = ReadFails
  /\ currentSnapshot = NullSnapshot
  /\ groundTruthContext = <<>>
  /\ narratorResponse = <<>>
  /\ sections = <<>>
  /\ expertResponses = <<>>
  /\ finalResponse = <<>>
  /\ result = <<>>
  /\ written = <<>>
  /\ logs = {}
  /\ errors = {}
  /\ exitCode = -1

\* What sendPrompt leaves alone.
apiFrame == <<cliVars, outKind, pc, loadVars, startDate, snapVars, stepVars, written,
              exitCode>>

\* sendPrompt up to its await: the count goes up, the payload is built and
\* the request is sent.
SendPrompt ==
  /\ pc = "api"
  /\ Len(calls) < MaxCalls
  /\ \E a \in PromptArguments :
       /\ calls' = Append(calls, PromptCall(requestCount + 1,
                                            RequestPayload(a.messages, a.functions)))
       /\ logs' = logs \cup {<<"debug", "API Request messages">>}
                       \cup (IF Len(a.functions) > 0
                             THEN {<<"debug", "API Request functions">>} ELSE {})
  /\ requestCount' = requestCount + 1
  /\ UNCHANGED <<apiFrame, errors>>

\* sendPrompt after its await: create has returned a reply for the request
\* at position i, and the try block returns.
PromptReturns(i) ==
  /\ pc = "api"
  /\ i \in 1..Len(calls) /\ calls[i].status = "inflight"
  /\ \E response \in ApiResponses, r \in 0..(RandDenominator - 1) :
       /\ ~ReplyOf(response, r).threw
       /\ calls' = [calls EXCEPT ![i].status = "ok",
                                 ![i].response = <<response>>,
                                 ![i].result = ReplyOf(response, r).value]
       /\ logs' = logs \cup (IF response.choices # <<>>
                                /\ response.choices[1].function_call # <<>>
                             THEN {<<"debug", "API Request function call">>}
                             ELSE {<<"info", "API Request completed">>})
  /\ UNCHANGED <<apiFrame, requestCount, errors>>

\* sendPrompt after its await: the try block throws on the reply (JSON.parse
\* or the sampler throws); the catch block debug-logs and throws on.
PromptThrows(i) ==
  /\ pc = "api"
  /\ i \in 1..Len(calls) /\ calls[i].status = "inflight"
  /\ \E response \in ApiResponses, r \in 0..(RandDenominator - 1) :
       /\ ReplyOf(response, r).threw
       /\ calls' = [calls EXCEPT ![i].status = "failed", ![i].response = <<response>>]
  /\ logs' = logs \cup {<<"debug", "API Request function call">>,
                         <<"debug", "Error with API Request">>}
  /\ errors' = errors \cup {"reply"}
  /\ UNCHANGED <<apiFrame, requestCount>>

\* create throws for the request at position i; the catch block debug-logs
\* and throws on.
PromptRejected(i) ==
  /\ pc = "api"
  /\ i \in 1..Len(calls) /\ calls[i].status = "inflight"
  /\ calls' = [calls EXCEPT ![i].status = "failed"]
  /\ logs' = logs \cup {<<"debug", "Error with API Request">>}
  /\ errors' = errors \cup {"api"}
  /\ UNCHANGED <<apiFrame, requestCount>>

ApiNext ==
  \/ SendPrompt
  \/ \E i \in 1..MaxCalls : PromptReturns(i)
  \/ \E i \in 1..MaxCalls : PromptThrows(i)
  \/ \E i \in 1..MaxCalls : PromptRejected(i)

ApiSpec == ApiInit /\ [][ApiNext]_vars

(* ------------------------------ claims --------------------------------- *)

NoOutputFlag == IndexOf(args, "--output") = -1

StartsWith(s, prefix) == Len(s) >= Len(prefix) /\ SubSeq(s, 1, Len(prefix)) = prefix

\* The step's files: all but the initial snapshot.
StepFiles == {i \in 1..Len(written) : written[i].path # initialSnapshotPath}

\* C1, as stated: a run started without --output never ends with status 0,
\* and does nothing on its way: it reads no ground truth, sends no API request
\* and writes no file.
C1_FailsWithoutOutput ==
  NoOutputFlag =>
    /\ exitCode # 0
    /\ reads = {}
    /\ calls = <<>>
    /\ written = <<>>

\* C1, amended: a run started without --output takes "simulation" as its
\* output directory and runs like any other: every file it writes is in that
\* directory, and it exits with status 1 only after an error was raised.
C1_DefaultOutputDir ==
  (NoOutputFlag /\ pc # "start") =>
    /\ outputDir = "simulation"
    /\ \A i \in 1..Len(written) : StartsWith(written[i].path, "simulation/")
    /\ exitCode = 1 => errors # {}

C1_Witness == NoOutputFlag /\ pc = "done" /\ exitCode = 0 /\ Len(written) = 3

\* C2, as stated: a run that completes has written exactly two files, with
\* or without --snapshot.
C2_TwoFilesPerRun == pc = "done" => Len(written) = 2

\* C2, amended: a run that completes has written the step's snapshot and then
\* the step's report, two distinct files; a run without --snapshot has
\* written the initial snapshot before them, three distinct files in all.
C2_FilesPerRun ==
  pc = "done" =>
    LET n == Len(written)
    IN  /\ n = IF Truthy(snapshotPath) THEN 2 ELSE 3
        /\ \A i, j \in 1..n : i # j => written[i].path # written[j].path
        /\ written[n - 1].path = outputSnapshotPath
        /\ StartsWith(written[n - 1].path, Join(outputDir, "snapshot-"))
        /\ StartsWith(written[n].path, Join(outputDir, "report-"))
        /\ n = 3 => written[1].path = initialSnapshotPath

C2_Witness ==
  /\ pc = "done" /\ ~Truthy(snapshotPath)
  /\ Len(written) = 3 /\ written[1].path = initialSnapshotPath

\* C3, as stated: the step's snapshot and report are named with the date of
\* the day the run executes.
C3_NamedWithCurrentDate ==
  pc = "done" =>
    \A i \in StepFiles :
      written[i].path \in {Join(outputDir, "snapshot-" \o DateStr(today) \o ".txt"),
                           Join(outputDir, "report-" \o DateStr(today) \o ".md")}

\* C3, amended: the step's snapshot and report are named with the date the
\* step returns, 7 * week days after the day the run executes, where week is
\* one more than the week of the snapshot the step started from (0 when that
\* is null or has no week); only the initial snapshot carries the run's day.
C3_NamedWithSimulationDate ==
  pc = "done" =>
    LET day == today + 7 * NextWeek(currentSnapshot)
    IN  /\ StepFiles # {}
        /\ \A i \in StepFiles :
             written[i].path \in {Join(outputDir, "snapshot-" \o DateStr(day) \o ".txt"),
                                  Join(outputDir, "report-" \o DateStr(day) \o ".md")}
        /\ \A i \in 1..Len(written) \ StepFiles :
             written[i].path =
               Join(outputDir, "snapshot-" \o DateStr(today) \o "-initial.txt")

C3_Witness ==
  /\ pc = "done" /\ currentSnapshot.week = <<1>>
  /\ written[1].path = Join(outputDir, "snapshot-" \o DateStr(today + 14) \o ".txt")

\* C4, as stated: when the snapshot file could be read, the narrator prompt
\* holds the file's text, unchanged.
C4_SnapshotFileInPrompt ==
  \A i \in CallsOf("narrator") :
    snapshotFile.ok => Contains(calls[i].prompt, snapshotFile.content)

\* The errors the code catches close to where they are raised.
Absorbed == {"readFile", "loadSnapshot", "mkdir EEXIST"}

\* C5, as stated: no run in which an error was raised completes with status 0.
C5_EveryErrorEndsTheRun == errors # {} => exitCode # 0 /\ pc # "done"

\* C5, amended: an error of mkdir other than EEXIST, of readdir, of the API
\* client's constructor, of an API call, of the parsing of the final reply or
\* of writeFile reaches main's catch block, is logged there and ends the run
\* with status 1. An error reading a ground-truth file and an error loading
\* the snapshot file are debug-logged and absorbed, and the run can complete
\* with status 0; EEXIST from mkdir is dropped without a log, and no run that
\* met it completes.
C5_ErrorsEndTheRunUnlessAbsorbed ==
  /\ errors \ Absorbed # {} => pc \in {"catch", "exited"}
  /\ pc = "exited" =>
       /\ exitCode = 1
       /\ <<"error", "Simulation failed">> \in logs
       /\ errors \ Absorbed # {}
  /\ exitCode = 0 => pc = "done" /\ errors \subseteq {"readFile", "loadSnapshot"}
  /\ "readFile" \in errors => <<"debug", "Error loading file">> \in logs
  /\ "loadSnapshot" \in errors => <<"debug", "Error loading snapshot">> \in logs

C5_Witness == pc = "done" /\ exitCode = 0 /\ errors = {"readFile", "loadSnapshot"}

ExpertFailed == \E i \in CallsOf("expert") : calls[i].status = "failed"

\* C6: once an expert request has failed, the final-analysis prompt is never
\* sent and none of the step's files is written; the run is on its way out
\* with a nonzero status, whatever the other expert requests did.
C6_OneFailureFailsTheStep ==
  ExpertFailed =>
    /\ CallsOf("final") = {}
    /\ StepFiles = {}
    /\ pc \in {"catch", "exited"}
    /\ exitCode # 0

C6_Witness ==
  /\ ExpertFailed /\ pc = "exited"
  /\ \E i \in CallsOf("expert") : calls[i].status = "ok"
  /\ \E i \in CallsOf("expert") : calls[i].status = "inflight"

\* C7, as stated: a run sends at most five expert requests.
C7_AtMostFiveExpertCalls == Cardinality(CallsOf("expert")) <= 5

\* Has processExpertResponses sent its requests, and has none failed?
Consulted ==
  pc \in {"awaitExperts", "awaitFinal", "parse", "writeSnapshot", "writeReport", "done"}

\* C7, amended: the fan-out sends one request for every expert section the
\* pattern finds in the narrator's reply, however many there are, and all of
\* them are in flight before the first returns.
C7_OneCallPerSection ==
  /\ Cardinality(CallsOf("expert")) <= Len(SectionsFrom(narratorResponse, 1))
  /\ Consulted =>
       Cardinality(CallsOf("expert")) = Len(SectionsFrom(narratorResponse, 1))
  /\ pc = "awaitExperts" =>
       InFlight = {ExpertCall(i) : i \in {k \in 1..Len(sections) : expertResponses[k] = <<>>}}

C7_Witness ==
  /\ pc = "awaitExperts"
  /\ Cardinality(InFlight) = 6
  /\ InFlight = CallsOf("expert")

\* C8: the narrator request is sent after readFile was called for every file
\* of the world directory; an expert request is sent after the narrator
\* request has returned; the final-analysis request is sent after every
\* expert request has returned; the step's files are written after the
\* final-analysis request has returned.
C8_LinearOrder ==
  /\ CallsOf("narrator") # {} => stack = <<>> /\ reads = DOMAIN world.files
  /\ CallsOf("expert") # {} =>
       /\ CallsOf("narrator") # {}
       /\ \A i \in CallsOf("narrator") : calls[i].status = "ok"
  /\ CallsOf("final") # {} =>
       /\ CallsOf("narrator") # {}
       /\ \A i \in CallsOf("expert") : calls[i].status = "ok"
  /\ StepFiles # {} =>
       /\ CallsOf("final") # {}
       /\ \A i \in CallsOf("final") : calls[i].status = "ok"

C8_Witness == pc = "done" /\ Len(sections) >= 2 /\ Cardinality(reads) >= 2

\* C9: every request has its own number; no prompt is sent twice; a step
\* sends one narrator request, one request per expert section and one
\* final-analysis request, N + 2 in all once the final one is out; and after
\* a request has failed the run is on its way out, with that one failure.
C9_NoRetry ==
  LET n      == Len(SectionsFrom(narratorResponse, 1))
      failed == {i \in 1..Len(calls) : calls[i].status = "failed"}
  IN  /\ \A i \in 1..Len(calls) : calls[i].request = i
      /\ requestCount = Len(calls)
      /\ \A i, j \in 1..Len(calls) : i # j => calls[i].prompt # calls[j].prompt
      /\ Cardinality(CallsOf("initial")) <= 1
      /\ Cardinality(CallsOf("narrator")) <= 1
      /\ Cardinality(CallsOf("final")) <= 1
      /\ Cardinality(CallsOf("expert")) <= n
      /\ CallsOf("final") # {} =>
           Cardinality(CallsOf("narrator") \cup CallsOf("expert") \cup CallsOf("final"))
             = n + 2
      /\ failed # {} => Cardinality(failed) = 1 /\ pc \in {"catch", "exited"}

C9_Witness ==
  /\ pc = "done" /\ Len(sections) = 2
  /\ Cardinality(CallsOf("narrator") \cup CallsOf("expert") \cup CallsOf("final")) = 4

\* C10, as stated: the output directory is there whenever the run has listed
\* or read the world directory, sent an API request or written a file.
C10_DirectoryExistsFirst ==
  (\/ \E k \in 1..Len(stack) : stack[k].listed
   \/ reads # {}
   \/ calls # <<>>
   \/ written # <<>>) => outKind = "dir"

\* Has loadGroundTruth returned?
LoaderReturned ==
  /\ pc \notin {"start", "mkdir", "loadGroundTruth"}
  /\ stack = <<>>
  /\ "mkdir" \notin errors

\* The paths of the records loadGroundTruth has pushed.
RecordPaths == {groundTruth[i].filePath : i \in 1..Len(groundTruth)}

\* C11, as stated: loadGroundTruth returns exactly one record for every file
\* at any depth of the world directory, and a record's content is the content
\* of its file, unchanged.
C11_OneRecordPerFile ==
  LoaderReturned =>
    /\ RecordPaths = DOMAIN world.files
    /\ Cardinality(RecordPaths) = Len(groundTruth)
    /\ \A i \in 1..Len(groundTruth) :
         groundTruth[i].content = world.files[groundTruth[i].filePath].content

\* C11, amended: loadGroundTruth calls readFile for every file at any depth
\* of the world directory and returns exactly one record for every file whose
\* read succeeded; a file whose read fails is debug-logged and left out. A
\* record's content is the file's bytes decoded as UTF-8: the file's text,
\* unchanged, except that a byte that is not valid UTF-8 becomes U+FFFD.
C11_OneRecordPerReadableFile ==
  LoaderReturned =>
    /\ reads = DOMAIN world.files
    /\ RecordPaths \subseteq DOMAIN world.files
    /\ Cardinality(RecordPaths) = Len(groundTruth)
    /\ "readFile" \notin errors => RecordPaths = DOMAIN world.files
    /\ RecordPaths # DOMAIN world.files =>
         "readFile" \in errors /\ <<"debug", "Error loading file">> \in logs
    /\ \A i \in 1..Len(groundTruth) :
         LET bytes == world.files[groundTruth[i].filePath].content
             text  == groundTruth[i].content
         IN  /\ Len(text) = Len(bytes)
             /\ \A k \in 1..Len(bytes) :
                  text[k] = IF bytes[k] = InvalidByte THEN Replacement ELSE bytes[k]

C11_Witness ==
  /\ LoaderReturned
  /\ RecordPaths = {"./world/sub/week-022024.md"}
  /\ reads = {"./world/notes.txt", "./world/sub/week-022024.md"}

\* C12: a run started without --output has "simulation" as its output
\* directory; once ensureDirectoryExists has returned without an error of
\* mkdir that directory is there; and a run that completes has ended with
\* status 0 and has written its files, the step's snapshot and report among
\* them, into that directory.
C12_DefaultDirectory ==
  NoOutputFlag =>
    /\ pc # "start" => outputDir = "simulation"
    /\ (pc \notin {"start", "mkdir"} /\ errors \cap {"mkdir", "mkdir EEXIST"} = {})
         => outKind = "dir"
    /\ pc = "done" =>
         /\ exitCode = 0
         /\ outKind = "dir"
         /\ Len(written) >= 2
         /\ \A i \in 1..Len(written) : StartsWith(written[i].path, "simulation/")
         /\ \E i \in 1..Len(written) : StartsWith(written[i].path, "simulation/snapshot-")
         /\ \E i \in 1..Len(written) : StartsWith(written[i].path, "simulation/report-")

C12_Witness ==
  /\ NoOutputFlag /\ pc = "done" /\ Truthy(snapshotPath)
  /\ Len(written) = 2
  /\ StartsWith(written[2].path, "simulation/report-")

\* C13, as stated: the context getGroundTruthContext returns is never longer
\* than MAX_CONTEXT_LENGTH characters, separators included.
C13_ContextWithinLimit == StrLen(groundTruthContext) <= MAX_CONTEXT_LENGTH

\* C14: the context is the records of a suffix of the list sorted by
\* ascending date, each formatted, in that order, joined by the separator. It
\* is the whole list unless that is longer than MAX_CONTEXT_LENGTH; when it
\* is not the whole list, the length check has accepted every record of the
\* suffix in turn, most recent first, and has rejected the record before it.
C14_MostRecentSuffix ==
  pc = "awaitInitial" =>
    LET n == Len(groundTruth)
    IN  \E p \in Permutations(1..n) :
          LET chunk(i)  == FormatRecord(groundTruth[p[i]])
              suffix(k) == JoinTexts([j \in 1..(n - k) |-> chunk(k + j)], Separator)
          IN  /\ \A i \in 1..(n - 1) : groundTruth[p[i]].date <= groundTruth[p[i + 1]].date
              /\ \E k \in 0..n :
                   /\ groundTruthContext = suffix(k)
                   /\ k > 0 => StrLen(suffix(0)) > MAX_CONTEXT_LENGTH
                   /\ k > 0 => StrLen(suffix(k)) + StrLen(chunk(k)) > MAX_CONTEXT_LENGTH
                   /\ StrLen(suffix(0)) > MAX_CONTEXT_LENGTH =>
                        \A j \in (k + 1)..n :
                          StrLen(suffix(j)) + StrLen(chunk(j)) <= MAX_CONTEXT_LENGTH

\* The oldest record would fit, the one after it does not: the context stops
\* there and holds the most recent record alone.
C14_Witness ==
  /\ pc = "awaitInitial" /\ Len(groundTruth) = 3
  /\ groundTruthContext # <<>>
  /\ StrLen(groundTruthContext) < StrLen(<<Bulk>>)
  /\ Contains(groundTruthContext, <<Half>>)
  /\ \E i \in 1..3 :
       /\ groundTruth[i].content = <<"brief">>
       /\ \A j \in 1..3 : groundTruth[i].date <= groundTruth[j].date
       /\ ~Contains(groundTruthContext, <<"brief">>)

\* C15, as stated: the step returns the week after its input snapshot's (week
\* 1 for a null snapshot), and a run started from the snapshot file that the
\* run of week w of a chain has written returns week w + 1 and the date
\* 7 * (w + 1) days after the chain's start.
C15_WeekAdvancesAlongTheChain ==
  result # <<>> =>
    /\ currentSnapshot.isNull => result[1].snapshot.week = <<1>>
    /\ currentSnapshot.week # <<>> =>
         result[1].snapshot.week = <<currentSnapshot.week[1] + 1>>
    /\ \A w \in 1..MaxWeek :
         (snapshotFile = ReadOk(StepSnapshotText(w)) /\ today = ChainStart) =>
           /\ result[1].snapshot.week = <<w + 1>>
           /\ result[1].date = ChainStart + 7 * (w + 1)

\* Does the file name carry one of the date patterns?
HasDatePattern(name) == \E i \in 1..Len(name) : YmdAt(name, i) \/ WeekAt(name, i)

\* C16, as stated: the record of a file whose name carries no date pattern
\* has the day the file was created as its date.
C16_UndatedFileGetsCreationDate ==
  \A d \in DOMAIN world.dirs :
    \A k \in 1..Len(world.dirs[d]) :
      LET entry == world.dirs[d][k]
      IN  (~entry.isDir /\ ~HasDatePattern(entry.name)) =>
            \A i \in 1..Len(groundTruth) :
              groundTruth[i].filePath = Join(d, entry.name) =>
                groundTruth[i].date = world.files[Join(d, entry.name)].created

\* Has the final-analysis request returned, and has the reply been parsed?
FinalParsed ==
  /\ \E i \in CallsOf("final") : calls[i].status = "ok"
  /\ pc # "parse"

\* The positions of the [SPLIT] markers in the final-analysis reply.
Markers == {i \in 1..Len(finalResponse) : finalResponse[i] = SplitMark}

\* C17: when the final-analysis reply holds no [SPLIT] marker the step throws
\* from its catch block, no result is returned, the run is on its way out with
\* a nonzero status and none of the step's files is written; when it holds
\* one, the snapshot's content is the trimmed text before the first marker and
\* the report is the trimmed text between the first marker and the second, or
\* the end of the reply.
C17_SplitParsing ==
  FinalParsed =>
    IF Markers = {}
    THEN /\ result = <<>>
         /\ "parse" \in errors
         /\ <<"debug", "Error parsing final response">> \in logs
         /\ pc \in {"catch", "exited"}
         /\ exitCode # 0
         /\ StepFiles = {}
    ELSE LET first  == CHOOSE i \in Markers : \A j \in Markers : i <= j
             later  == Markers \ {first}
             second == IF later = {} THEN Len(finalResponse) + 1
                       ELSE CHOOSE i \in later : \A j \in later : i <= j
         IN  /\ result # <<>>
             /\ "parse" \notin errors
             /\ result[1].snapshot.content = <<Trim(SubSeq(finalResponse, 1, first - 1))>>
             /\ result[1].report = Trim(SubSeq(finalResponse, first + 1, second - 1))

C17_Witness ==
  /\ FinalParsed /\ pc = "exited"
  /\ finalResponse = <<"new state and briefing">>
  /\ "parse" \in errors

\* The analysis that answered the request made for the section of the domain.
AnalysisFor(domain) ==
  LET j == CHOOSE j \in CallsOf("expert") :
             calls[j].prompt[1] = "You are a leading expert in "
               /\ calls[j].prompt[2] = domain
  IN  ExpertReply(calls[j].request)

\* C18: while the expert requests complete, in whatever order, the analysis
\* of each is kept at the place of its section; and the final-analysis prompt
\* lists, under "Expert Analyses:", one "# domain" heading per section of the
\* narrator's reply, in the order of the sections, each followed by the
\* analysis that answered that section's request.
C18_AnalysesInSectionOrder ==
  LET secs == SectionsFrom(narratorResponse, 1)
  IN  /\ pc = "awaitExperts" =>
           \A k \in 1..Len(secs) :
             expertResponses[k] # <<>> =>
               expertResponses[k] = <<AnalysisFor(secs[k].domain)>>
      /\ \A c \in CallsOf("final") :
           Contains(calls[c].prompt,
             <<"\n\nExpert Analyses:\n">>
               \o JoinTexts([k \in 1..Len(secs) |->
                              <<"# ", secs[k].domain, "\n">> \o AnalysisFor(secs[k].domain)],
                            <<"\n\n">>)
               \o <<"\n\nProvide your response in two parts, separated by the marker [SPLIT]">>)

\* The request of the third section has returned before that of the first.
C18_Witness ==
  /\ pc = "awaitExperts" /\ Len(sections) = 3
  /\ expertResponses[3] # <<>>
  /\ expertResponses[1] = <<>>

\* C19: a run given a snapshot path after --snapshot never sends the request
\* of generateInitialSnapshot and never writes a "-initial" snapshot file,
\* whether the file could be loaded or not; when loading failed, the current
\* snapshot is null, the narrator prompt says "Starting new simulation." and
\* the step returns week 1.
C19_SnapshotRunSkipsInitial ==
  Truthy(snapshotPath) =>
    /\ CallsOf("initial") = {}
    /\ \A i \in 1..Len(written) : ~EndsWith(written[i].path, "-initial.txt")
    /\ "loadSnapshot" \in errors =>
         /\ currentSnapshot.isNull
         /\ \A i \in CallsOf("narrator") :
              /\ Contains(calls[i].prompt, <<"Starting new simulation.\n">>)
              /\ ~Contains(calls[i].prompt, <<"Current simulation week: ">>)
         /\ result # <<>> => result[1].snapshot.week = <<1>>

C19_Witness ==
  /\ Truthy(snapshotPath) /\ pc = "done"
  /\ "loadSnapshot" \in errors
  /\ ~snapshotFile.ok
  /\ result[1].snapshot.week = <<1>>

\* The reverse of JSON.stringify's escaping, character by character.
RECURSIVE UnescapeChars(_)
UnescapeChars(str) ==
  IF Len(str) = 0 THEN ""
  ELSE IF Len(str) >= 2 /\ CharAt(str, 1) = "\\"
  THEN (IF CharAt(str, 2) = "n" THEN "\n" ELSE CharAt(str, 2))
         \o UnescapeChars(SubSeq(str, 3, Len(str)))
  ELSE CharAt(str, 1) \o UnescapeChars(SubSeq(str, 2, Len(str)))

\* Is the text the JSON of { name, arguments } for this function call?
IsJsonOfCall(t, fc) ==
  /\ Len(t) = 8 + Len(fc.arguments)
  /\ t[1] = "{\"name\":" /\ t[2] = "\"" /\ UnescapeChars(t[3]) = fc.name /\ t[4] = "\""
  /\ t[5] = ",\"arguments\":" /\ t[6] = "\""
  /\ \A k \in 1..Len(fc.arguments) : UnescapeChars(t[6 + k]) = fc.arguments[k]
  /\ t[Len(t) - 1] = "\"" /\ t[Len(t)] = "}"

\* The argument texts that are valid JSON.
ValidArguments ==
  {EmptyObjectJson, CityJson} \cup {OutcomesJson(list) : list \in OutcomeLists}

\* The calls that got a reply from the API, as positions of calls.
Replied == {i \in 1..Len(calls) : calls[i].response # <<>>}

HasFunctionCall(response) ==
  response.choices # <<>> /\ response.choices[1].function_call # <<>>

\* The message content of a reply, the empty text when there is none.
ContentOrEmpty(response) ==
  IF response.choices # <<>> /\ response.choices[1].content # <<>>
  THEN response.choices[1].content[1]
  ELSE <<>>

DistinctRequestNumbers ==
  /\ \A i, j \in 1..Len(calls) : i # j => calls[i].request # calls[j].request
  /\ \A i \in 1..Len(calls) : calls[i].request \in 1..requestCount

\* C20, as stated: a call that got a reply with a sample_from_weighted_outcomes
\* function call and a non-empty outcomes list returns the outcome of an
\* element of the list; one that got any other function call returns the JSON
\* text of the call; one that got no function call returns the content, or
\* the empty string; and no two calls have the same request number.
C20_SendPromptReturns ==
  /\ DistinctRequestNumbers
  /\ \A i \in Replied :
       LET response == calls[i].response[1]
           fc       == response.choices[1].function_call[1]
       IN  IF ~HasFunctionCall(response)
           THEN calls[i].status = "ok" /\ calls[i].result = ContentOrEmpty(response)
           ELSE IF fc.name = SampleName
           THEN \A list \in OutcomeLists :
                  (list # <<>> /\ fc.arguments = OutcomesJson(list)) =>
                    /\ calls[i].status = "ok"
                    /\ \E k \in 1..Len(list) : calls[i].result = <<list[k].outcome>>
           ELSE calls[i].status = "ok" /\ IsJsonOfCall(calls[i].result, fc)

\* C20, amended: as stated, for a function call whose arguments are valid
\* JSON; a call that got a function call, of whatever name, whose arguments
\* are not valid JSON throws and returns nothing.
C20_SendPromptReturnsOnValidArguments ==
  /\ DistinctRequestNumbers
  /\ \A i \in Replied :
       LET response == calls[i].response[1]
           fc       == response.choices[1].function_call[1]
       IN  IF ~HasFunctionCall(response)
           THEN calls[i].status = "ok" /\ calls[i].result = ContentOrEmpty(response)
           ELSE IF fc.arguments \notin ValidArguments
           THEN calls[i].status = "failed" /\ calls[i].result = <<>>
           ELSE IF fc.name = SampleName
           THEN \A list \in OutcomeLists :
                  (list # <<>> /\ fc.arguments = OutcomesJson(list)) =>
                    /\ calls[i].status = "ok"
                    /\ \E k \in 1..Len(list) : calls[i].result = <<list[k].outcome>>
           ELSE calls[i].status = "ok" /\ IsJsonOfCall(calls[i].result, fc)

\* Two calls overlap; the later one has returned first, with the second of
\* two outcomes, and the earlier one is in flight.
C20_Witness ==
  /\ Len(calls) = 2
  /\ calls[1].status = "inflight" /\ calls[2].status = "ok"
  /\ calls[1].request # calls[2].request
  /\ HasFunctionCall(calls[2].response[1])
  /\ calls[2].response[1].choices[1].function_call[1].arguments
       = OutcomesJson(<<Outcome("outcome1", 1), Outcome("", 1)>>)
  /\ calls[2].result = <<"">>

====
